---- MODULE Spec2Model ----
(***************************************************************************)
(* cargo-gpt (src/main.rs): the function extractor, the two rewriting      *)
(* modes (elision, extraction), the selection history and the --functions  *)
(* run.                                                                    *)
(*                                                                         *)
(* A source text is a sequence of lexical units; an offset counts units.   *)
(* The placeholder " { /* ... */ }" is the four units                      *)
(*   " "  "{"  "/* ... */"  "}"                                            *)
(* so a body can be shorter than, as long as, or longer than the           *)
(* placeholder that replaces it.                                           *)
(***************************************************************************)
EXTENDS Integers, Sequences, FiniteSets, TLC

VARIABLES
    source,             \* transform/extract: the text of the source unit
    functions_to_keep,  \* the bare names to keep for this unit
    functions,          \* result of extract_functions_from_rust_file
    transformed,        \* result of transform_rust_file
    extracted,          \* result of extract_only_selected_functions
    retransformed,      \* result of transform_rust_file on its own output
    history_file,       \* ~/.config/cargo-gpt/history.json on disk
    home_ok,            \* dirs::home_dir() resolves
    run,                \* the --functions runs: one process each
    write_log,          \* the fs::write calls on the history file, in order
    readable,           \* which files of the project fs::read_to_string can read
    args,               \* the command line: --only, --readme, --print
    orun                \* one --functions run of main

rvars == <<source, functions_to_keep, functions, transformed, extracted, retransformed>>

svars == <<history_file, home_ok, run, write_log>>

ovars == <<readable, args, orun>>

vars == <<rvars, svars, ovars>>

-----------------------------------------------------------------------------
(* Bounds of the rewriter model *)

\* longest run of plain statements in a generated body
MaxStmts == 3

Names == {"f", "g"}
Types == {"T", "R"}

\* whitespace and comments: skipped by the parser
Trivia == {" ", "\n", "    ", "/* ... */"}

Placeholder == <<" ", "{", "/* ... */", "}">>

RelativePath == "a.rs"

-----------------------------------------------------------------------------
(* The syntax tree of ra_ap_syntax, as far as main.rs reads it *)

Last(seq) == seq[Len(seq)]

TokAt(t, i) == IF i \in 1..Len(t) THEN t[i] ELSE "EOF"

\* the first position >= i that holds no trivia (Len(t)+1 when there is none)
NextTok(t, i) ==
    IF \E j \in i..Len(t) : t[j] \notin Trivia
    THEN CHOOSE j \in i..Len(t) :
            t[j] \notin Trivia /\ \A k \in i..(j - 1) : t[k] \in Trivia
    ELSE Len(t) + 1

Depth(t, k, j) ==
    Cardinality({x \in k..j : t[x] = "{"}) - Cardinality({x \in k..j : t[x] = "}"})

\* the brace closing the block opened at k; an unclosed block runs to the end
MatchBrace(t, k) ==
    IF \E j \in k..Len(t) : Depth(t, k, j) = 0
    THEN CHOOSE j \in k..Len(t) :
            Depth(t, k, j) = 0 /\ \A x \in k..(j - 1) : Depth(t, k, x) # 0
    ELSE Len(t)

Positions(t) == [i \in 1..Len(t) |-> i]

\* ast::Fn with a name: `fn <name>`
IsFnAt(t, i) == t[i] = "fn" /\ TokAt(t, NextTok(t, i + 1)) \in Names

\* one ast::Fn node: name(), body() and the text ranges (positions 1-based,
\* inclusive)
FnNode(t, i) ==
    LET n == NextTok(t, i + 1)
        k == NextTok(t, n + 1)
        hasBody == TokAt(t, k) = "{"
    IN  [start     |-> i,
         name      |-> t[n],
         hasBody   |-> hasBody,
         bodyStart |-> IF hasBody THEN k ELSE 0,
         bodyEnd   |-> IF hasBody THEN MatchBrace(t, k) ELSE 0,
         end       |-> IF hasBody THEN MatchBrace(t, k)
                       ELSE IF TokAt(t, k) = ";" THEN k ELSE n]

\* syntax().descendants().filter_map(ast::Fn::cast), restricted to the
\* positions lo..hi; preorder is ascending start position
FnsWithin(t, lo, hi) ==
    LET starts == SelectSeq(Positions(t),
                            LAMBDA i : i >= lo /\ i <= hi /\ IsFnAt(t, i))
    IN  [x \in 1..Len(starts) |-> FnNode(t, starts[x])]

Fns(t) == FnsWithin(t, 1, Len(t))

\* one ast::Impl node: generic_param_list(), trait_(), self_ty(),
\* where_clause() and its range
ImplNode(t, i) ==
    LET g      == NextTok(t, i + 1)
        hasGen == TokAt(t, g) = "<G>"
        a      == IF hasGen THEN NextTok(t, g + 1) ELSE g
        hasA   == TokAt(t, a) \in Types
        b      == IF hasA THEN NextTok(t, a + 1) ELSE a
        hasFor == hasA /\ TokAt(t, b) = "for"
        c      == IF hasFor THEN NextTok(t, b + 1) ELSE b
        hasC   == hasFor /\ TokAt(t, c) \in Types
        w      == IF hasC THEN NextTok(t, c + 1) ELSE c
        hasW   == TokAt(t, w) = "where W"
        o      == IF hasW THEN NextTok(t, w + 1) ELSE w
        hasBlk == TokAt(t, o) = "{"
    IN  [start    |-> i,
         generics |-> IF hasGen THEN <<t[g]>> ELSE <<>>,
         trait    |-> IF hasFor THEN <<t[a]>> ELSE <<>>,
         self_ty  |-> IF hasFor THEN (IF hasC THEN <<t[c]>> ELSE <<>>)
                      ELSE IF hasA THEN <<t[a]>> ELSE <<>>,
         where    |-> IF hasW THEN <<t[w]>> ELSE <<>>,
         end      |-> IF hasBlk THEN MatchBrace(t, o)
                      ELSE IF o - 1 > i THEN o - 1 ELSE i]

\* syntax().descendants().filter_map(ast::Impl::cast)
Impls(t) ==
    LET starts == SelectSeq(Positions(t), LAMBDA i : t[i] = "impl")
    IN  [x \in 1..Len(starts) |-> ImplNode(t, starts[x])]

\* impl_block.syntax().descendants().filter_map(ast::Fn::cast)
ImplFns(t, impl) == FnsWithin(t, impl.start, impl.end)

\* node.syntax().text()
NodeText(t, node) == SubSeq(t, node.start, node.end)

-----------------------------------------------------------------------------
(* transform_rust_file: elision *)

\* main.rs:639, the mutant keeps what it should elide
ShouldElide_Inverted(func_name, keep) == func_name \in keep

ShouldElide(func_name, keep) == func_name \notin keep

\* body.syntax().text_range(): half-open, 0-based
BodyRange(func) == [start |-> func.bodyStart - 1, end |-> func.bodyEnd]

\* the replacements pushed by the loop of main.rs:635-646
Replacements(t, keep) ==
    LET elide == SelectSeq(Fns(t),
                           LAMBDA func : ShouldElide(func.name, keep) /\ func.hasBody)
    IN  [x \in 1..Len(elide) |-> BodyRange(elide[x])]

\* sort_by_key(Reverse(range.start()))
ReverseByStart(a, b) == a.start > b.start

\* String::replace_range(start..end, with): panics when the range is out of
\* bounds
replace_range(result, start, end, with) ==
    IF ~result.ok \/ start > end \/ end > Len(result.text)
    THEN [ok |-> FALSE, text |-> <<>>]
    ELSE [ok   |-> TRUE,
          text |-> SubSeq(result.text, 1, start) \o with
                   \o SubSeq(result.text, end + 1, Len(result.text))]

RECURSIVE ApplyReplacements(_, _)
ApplyReplacements(result, reps) ==
    IF reps = <<>> THEN result
    ELSE ApplyReplacements(
            replace_range(result, Head(reps).start, Head(reps).end, Placeholder),
            Tail(reps))

\* ok = FALSE: the call panicked
transform_rust_file(t, keep) ==
    ApplyReplacements([ok |-> TRUE, text |-> t],
                      SortSeq(Replacements(t, keep), ReverseByStart))

-----------------------------------------------------------------------------
(* extract_only_selected_functions: extraction *)

\* main.rs:564 and 581, the mutant emits what was not selected
IsSelected_Inverted(func_name, keep) == func_name \notin keep

IsSelected(func_name, keep) == func_name \in keep

\* position of the first "\n" of s, 0 when there is none
FirstNewline(s) ==
    IF \E i \in 1..Len(s) : s[i] = "\n"
    THEN CHOOSE i \in 1..Len(s) : s[i] = "\n" /\ \A k \in 1..(i - 1) : s[k] # "\n"
    ELSE 0

\* str::lines()
RECURSIVE Lines(_)
Lines(s) ==
    IF s = <<>> THEN <<>>
    ELSE IF FirstNewline(s) = 0 THEN <<s>>
    ELSE <<SubSeq(s, 1, FirstNewline(s) - 1)>>
         \o Lines(SubSeq(s, FirstNewline(s) + 1, Len(s)))

RECURSIVE Flatten(_)
Flatten(ss) == IF ss = <<>> THEN <<>> ELSE Head(ss) \o Flatten(Tail(ss))

\* main.rs:561-570: every selected ast::Fn of the file, verbatim, then "\n\n"
StandaloneText(t, keep) ==
    LET sel == SelectSeq(Fns(t), LAMBDA func : IsSelected(func.name, keep))
    IN  Flatten([x \in 1..Len(sel) |-> NodeText(t, sel[x]) \o <<"\n", "\n">>])

\* main.rs:613-617: the lines of one function, indented
IndentedLines(func_text) ==
    Flatten([x \in 1..Len(Lines(func_text)) |->
                <<"    ">> \o Lines(func_text)[x] \o <<"\n">>])

\* main.rs:591-607: the impl signature as it is pushed
ImplSignature(impl) ==
    <<"impl">> \o impl.generics
    \o (IF impl.self_ty # <<>> THEN <<" ">> \o impl.self_ty ELSE <<>>)
    \o (IF impl.trait # <<>> THEN <<" ", "for", " ">> \o impl.trait ELSE <<>>)
    \o (IF impl.where # <<>> THEN <<" ">> \o impl.where ELSE <<>>)
    \o <<" ", "{", "\n">>

\* main.rs:573-623 for one impl block
ImplText(t, impl, keep) ==
    LET impl_functions == SelectSeq(ImplFns(t, impl),
                                    LAMBDA func : IsSelected(func.name, keep))
    IN  IF impl_functions = <<>> THEN <<>>
        ELSE ImplSignature(impl)
             \o Flatten([x \in 1..Len(impl_functions) |->
                    IndentedLines(NodeText(t, impl_functions[x])) \o <<"\n">>])
             \o <<"}", "\n", "\n">>

extract_only_selected_functions(t, keep) ==
    IF keep = {} THEN <<>>
    ELSE StandaloneText(t, keep)
         \o Flatten([x \in 1..Len(Impls(t)) |-> ImplText(t, Impls(t)[x], keep)])

-----------------------------------------------------------------------------
(* extract_functions_from_rust_file: a display name is the sequence of its
   "::"-separated segments *)

\* main.rs:344-350 and 374-377
TypeName(impl) == IF impl.self_ty # <<>> THEN Head(impl.self_ty) ELSE "Unknown"

\* main.rs:368-372
TraitName(impl) == impl.trait[Len(impl.trait)]

\* main.rs:330-336
StandaloneNames(t, path) ==
    [x \in 1..Len(Fns(t)) |-> <<path, Fns(t)[x].name>>]

\* main.rs:339-359
ImplNames(t, path) ==
    Flatten([x \in 1..Len(Impls(t)) |->
        [y \in 1..Len(ImplFns(t, Impls(t)[x])) |->
            <<path, TypeName(Impls(t)[x]), ImplFns(t, Impls(t)[x])[y].name>>]])

\* main.rs:362-390
TraitImplNames(t, path) ==
    Flatten([x \in 1..Len(Impls(t)) |->
        IF Impls(t)[x].trait = <<>> THEN <<>>
        ELSE [y \in 1..Len(ImplFns(t, Impls(t)[x])) |->
                <<path, TypeName(Impls(t)[x]), TraitName(Impls(t)[x]),
                  ImplFns(t, Impls(t)[x])[y].name>>]])

\* the Vec<FunctionInfo> returned for a file that was read
extract_functions_from_rust_file(t, path) ==
    StandaloneNames(t, path) \o ImplNames(t, path) \o TraitImplNames(t, path)

-----------------------------------------------------------------------------
(* The source units the rewriter and the extractor are run on *)

Stmts(k) == [i \in 1..k |-> "s"]

Block(inner) == <<"{">> \o inner \o <<"}">>

\* bodies of 2 .. MaxStmts+2 units, and one body of several lines
Bodies == {Block(Stmts(k)) : k \in 0..MaxStmts} \cup {<<"{", "\n", "s", "\n", "}">>}

LeafFns == {<<"fn", n>> \o b : n \in Names, b \in Bodies}

\* a function declared inside the body of another
NestedFns ==
    {<<"fn", n, "{">> \o inner \o post \o <<"}">> :
        n \in Names, inner \in LeafFns, post \in {<<>>, <<"s">>}}

MethodFns == {<<"fn", n>> \o b : n \in Names, b \in {Block(<<>>), Block(<<"s">>)}}

\* a trait declaration: a method without a body, or with a default body
TraitDecls ==
    {<<"trait", "R", "{", "fn", n, ";", "}">> : n \in Names}
    \cup {<<"trait", "R", "{", "fn", n, ";">> \o m \o <<"}">> :
            n \in Names, m \in MethodFns}

ImplHeaders ==
    {<<"impl", "T">>, <<"impl", "R", "for", "T">>, <<"impl", "<G>", "T", "where W">>}

ImplBlocks ==
    {h \o <<"{">> \o m1 \o m2 \o <<"}">> :
        h \in ImplHeaders, m1 \in MethodFns, m2 \in MethodFns \cup {<<>>}}

Items == LeafFns \cup NestedFns \cup TraitDecls \cup ImplBlocks

Trailers == {<<>>} \cup {<<"fn", n, "{", "s", "}">> : n \in Names}

Sources ==
    {pre \o a \o b : pre \in {<<>>, <<"use">>}, a \in Items, b \in Trailers}

NotRun == [st |-> "none", text |-> <<>>]

-----------------------------------------------------------------------------
(* The selection history (SelectionHistory, history.json) *)

Procs == {1, 2}

Roots == {"r1", "r2"}

\* qualified names, sorted as main.rs:425 sorts them
ProjectFunctions == <<<<"a.rs", "T", "g">>, <<"a.rs", "f">>, <<"b.rs", "h">>>>

\* a name of an earlier version of the project, extracted no more
Stale == <<"a.rs", "old">>

\* most callables the extractor finds in a project
MaxFunctions == 2

FunctionLists == {SubSeq(ProjectFunctions, 1, k) : k \in 0..MaxFunctions}

\* SelectionHistory::default(): no selections
EmptyHistory == [x \in {} |-> <<>>]

\* the file: missing, unreadable (no permission, not UTF-8), malformed
\* (no JSON of a SelectionHistory) or valid
FileOf(st) == [st |-> st, selections |-> EmptyHistory]

\* serde_json::to_string_pretty(&history), as fs::write stores it
ToJson(history) == [st |-> "valid", selections |-> history]

\* serde_json::from_str(&history_content)
FromJson(file) ==
    IF file.st = "valid" THEN [ok |-> TRUE, selections |-> file.selections]
    ELSE [ok |-> FALSE, selections |-> EmptyHistory]

\* main.rs:701-703: a parse error becomes the default history
ParseOrDefault(file) ==
    IF FromJson(file).ok THEN FromJson(file)
    ELSE [ok |-> TRUE, selections |-> EmptyHistory]

\* Result<SelectionHistory>
load_selection_history(home, file) ==
    IF ~home THEN [ok |-> FALSE, selections |-> EmptyHistory]
    ELSE IF file.st = "missing" THEN [ok |-> TRUE, selections |-> EmptyHistory]
    ELSE IF file.st = "unreadable" THEN [ok |-> FALSE, selections |-> EmptyHistory]
    ELSE ParseOrDefault(file)

\* load_selection_history().unwrap_or_default()
LoadOrDefault(home, file) ==
    IF load_selection_history(home, file).ok
    THEN load_selection_history(home, file).selections
    ELSE EmptyHistory

\* main.rs:714-716, the mutant merges the selection into the prior record
InsertSelection_Merging(history, project_key, selected_functions) ==
    [x \in DOMAIN history \cup {project_key} |->
        IF x = project_key
        THEN (IF x \in DOMAIN history THEN history[x] ELSE <<>>) \o selected_functions
        ELSE history[x]]

\* HashMap::insert
InsertSelection(history, project_key, selected_functions) ==
    [x \in DOMAIN history \cup {project_key} |->
        IF x = project_key THEN selected_functions ELSE history[x]]

Range(seq) == {seq[i] : i \in 1..Len(seq)}

\* the strings of the model in the order str::cmp gives them
AsciiOrder ==
    <<"R", "README.md", "T", "Unknown", "a.rs", "b.rs", "f", "g", "h", "old">>

StrRank(str) == CHOOSE i \in 1..Len(AsciiOrder) : AsciiOrder[i] = str

\* a.display_name.cmp(&b.display_name) of main.rs:425, segment by segment
RECURSIVE NameLess(_, _)
NameLess(a, b) ==
    IF a = <<>> THEN b # <<>>
    ELSE IF b = <<>> THEN FALSE
    ELSE IF Head(a) = Head(b) THEN NameLess(Tail(a), Tail(b))
    ELSE StrRank(Head(a)) < StrRank(Head(b))

\* main.rs:438-454, the mutant pre-checks everything whatever the history
DefaultSelected_All(function_display_names, history, project_key) ==
    1..Len(function_display_names)

\* the indices pre-checked in the picker
DefaultSelected(function_display_names, history, project_key) ==
    IF project_key \in DOMAIN history
    THEN {i \in 1..Len(function_display_names) :
            function_display_names[i] \in Range(history[project_key])}
    ELSE 1..Len(function_display_names)

\* main.rs:466-470, the mutant saves although the prompt failed
AfterPrompt_AlwaysSave(aborted) == "save"

\* `.prompt().context(..)?`: an Err leaves interactive_select_functions
AfterPrompt(aborted) == IF aborted THEN "returned" ELSE "save"

\* the options MultiSelect returns for the checked indices, in list order
Chosen(options, checked) ==
    SelectSeq(options, LAMBDA o : \E i \in checked : options[i] = o)

NoResult == [kind |-> "none", names |-> <<>>]

IdleRun(root) ==
    [pc |-> "start", root |-> root, function_display_names |-> <<>>,
     loaded |-> [ok |-> TRUE, selections |-> EmptyHistory], loaded_from |-> "none",
     default_selected |-> {}, aborted |-> FALSE, selected_names |-> <<>>,
     pending |-> EmptyHistory, result |-> NoResult, exit |-> "none"]

IdleOrun ==
    [pc |-> "start", i |-> 1, all_functions |-> <<>>, warnings |-> <<>>,
     selected_functions |-> <<>>, all_files |-> <<>>, writer |-> <<>>,
     exit |-> "none", clipboard |-> <<>>]

OrchestratorIdle ==
    /\ readable = {}
    /\ args = [only |-> FALSE, readme |-> FALSE, print |-> FALSE]
    /\ orun = IdleOrun

SelectorIdle ==
    /\ history_file = FileOf("missing")
    /\ home_ok = TRUE
    /\ run = [p \in Procs |-> IdleRun("r1")]
    /\ write_log = <<>>

RewriterIdle ==
    /\ source = <<>>
    /\ functions_to_keep = {}
    /\ functions = NotRun
    /\ transformed = NotRun
    /\ extracted = NotRun
    /\ retransformed = NotRun

\* the records a history file holds when a run starts
PriorLists == {<<>>, <<ProjectFunctions[1], Stale>>}

InitHistories ==
    {FileOf("missing"), FileOf("unreadable"), FileOf("malformed")}
    \cup {ToJson(h) : h \in UNION {[D -> PriorLists] : D \in SUBSET Roots}}

InitSelector ==
    /\ RewriterIdle
    /\ OrchestratorIdle
    /\ history_file \in InitHistories
    /\ home_ok \in BOOLEAN
    /\ \E r \in Roots : run = [p \in Procs |-> IF p = 1 THEN IdleRun("r1") ELSE IdleRun(r)]
    /\ write_log = <<>>

Return(p, kind, names) ==
    [run EXCEPT ![p].pc = "returned", ![p].result = [kind |-> kind, names |-> names]]

\* main.rs:399-430: collect the Rust files, extract and sort the names
CollectAndExtract(p) ==
    /\ run[p].pc = "start"
    /\ \E found \in BOOLEAN, all_functions \in FunctionLists :
        IF ~found \/ all_functions = <<>>
        THEN run' = Return(p, "ok", <<>>)
        ELSE run' = [run EXCEPT ![p].pc = "load",
                                ![p].function_display_names = all_functions]
    /\ UNCHANGED <<history_file, home_ok, write_log>>
    /\ UNCHANGED <<rvars, ovars>>

\* main.rs:432-454: load the previous selections, determine the defaults
LoadHistory(p) ==
    /\ run[p].pc = "load"
    /\ LET history == load_selection_history(home_ok, history_file)
       IN  IF ~history.ok
           THEN run' = [Return(p, "err", <<>>) EXCEPT
                            ![p].loaded = history, ![p].loaded_from = history_file.st]
           ELSE run' = [run EXCEPT
                            ![p].pc = "prompt",
                            ![p].loaded = history,
                            ![p].loaded_from = history_file.st,
                            ![p].default_selected =
                                DefaultSelected(run[p].function_display_names,
                                                history.selections, run[p].root)]
    /\ UNCHANGED <<history_file, home_ok, write_log>>
    /\ UNCHANGED <<rvars, ovars>>

\* main.rs:456-467: the picker returns the checked options, or an error
\* when the user aborts
Prompt(p) ==
    /\ run[p].pc = "prompt"
    /\ \E aborted \in BOOLEAN,
          checked \in SUBSET (1..Len(run[p].function_display_names)) :
        LET names == IF aborted THEN <<>>
                     ELSE Chosen(run[p].function_display_names, checked)
        IN  IF AfterPrompt(aborted) = "returned"
            THEN run' = [Return(p, "err", <<>>) EXCEPT ![p].aborted = aborted]
            ELSE run' = [run EXCEPT ![p].pc = "save",
                                    ![p].aborted = aborted,
                                    ![p].selected_names = names]
    /\ UNCHANGED <<history_file, home_ok, write_log>>
    /\ UNCHANGED <<rvars, ovars>>

\* main.rs:470, save_selection_history up to main.rs:719: the history as it
\* is read now, with this run's selection inserted
SaveLoad(p) ==
    /\ run[p].pc = "save"
    /\ \E dir_ok \in BOOLEAN :
        IF ~home_ok \/ ~dir_ok
        THEN run' = Return(p, "err", <<>>)
        ELSE run' = [run EXCEPT
                        ![p].pc = "write",
                        ![p].pending =
                            InsertSelection(LoadOrDefault(home_ok, history_file),
                                            run[p].root, run[p].selected_names)]
    /\ UNCHANGED <<history_file, home_ok, write_log>>
    /\ UNCHANGED <<rvars, ovars>>

\* main.rs:721-723 and 472: fs::write, then Ok(selected_names)
SaveWrite(p) ==
    /\ run[p].pc = "write"
    /\ \E written \in BOOLEAN :
        IF written
        THEN /\ history_file' = ToJson(run[p].pending)
             /\ write_log' = Append(write_log,
                    [proc |-> p, root |-> run[p].root, names |-> run[p].selected_names])
             /\ run' = Return(p, "ok", run[p].selected_names)
        ELSE /\ run' = Return(p, "err", <<>>)
             /\ UNCHANGED <<history_file, write_log>>
    /\ UNCHANGED home_ok
    /\ UNCHANGED <<rvars, ovars>>

\* main.rs:124-134 (and 146-158): the caller of interactive_select_functions
MainAfterSelect(p) ==
    /\ run[p].pc = "returned"
    /\ run' = [run EXCEPT
                ![p].pc = "done",
                ![p].exit = IF run[p].result.kind = "err" THEN "failure"
                            ELSE IF run[p].result.names = <<>> THEN "no functions selected"
                            ELSE "generate"]
    /\ UNCHANGED <<history_file, home_ok, write_log>>
    /\ UNCHANGED <<rvars, ovars>>

NextSelector ==
    \E p \in Procs :
        \/ CollectAndExtract(p)
        \/ LoadHistory(p)
        \/ Prompt(p)
        \/ SaveLoad(p)
        \/ SaveWrite(p)
        \/ MainAfterSelect(p)

SpecSelector == InitSelector /\ [][NextSelector]_vars

-----------------------------------------------------------------------------
(* One --functions run of main over the files of a project *)

\* the files collect_files finds, in walk order, and what they hold
ProjectFiles == <<"README.md", "a.rs", "b.rs">>

FileContent(path) ==
    IF path = "a.rs" THEN <<"fn", "f", "{", "s", "}">>
    ELSE IF path = "b.rs" THEN <<"impl", "T", "{", "fn", "g", "{", "s", "}", "}">>
    ELSE <<"doc", "\n">>

\* path.extension() == Some("rs")
IsRust(path) == path \in {"a.rs", "b.rs"}

\* should_include_file under the extensions of determine_extensions
\* (Cargo.toml is treated as README.md is)
ShouldInclude(path, extensions) == IsRust(path) \/ path \in extensions

DetermineExtensions(a) == IF a.readme THEN {"rs", "README.md"} ELSE {"rs"}

\* collect_files
CollectFiles(extensions) ==
    SelectSeq(ProjectFiles, LAMBDA path : ShouldInclude(path, extensions))

\* main.rs:507-517: the bare names selected in this file
FunctionsToKeep(selected_functions, relative_path) ==
    {Last(selected_functions[i]) :
        i \in {j \in 1..Len(selected_functions) :
                 Head(selected_functions[j]) = relative_path}}

\* str::trim().is_empty()
IsBlank(text) == \A i \in 1..Len(text) : text[i] \in {" ", "\n", "    "}

\* main.rs:519-528; a panic of transform_rust_file leaves no text
TransformedContent(content, keep, only) ==
    IF only THEN extract_only_selected_functions(content, keep)
    ELSE transform_rust_file(content, keep).text

InitRun ==
    /\ RewriterIdle
    /\ SelectorIdle
    /\ readable \in SUBSET Range(ProjectFiles)
    /\ args \in [only : BOOLEAN, readme : BOOLEAN, print : BOOLEAN]
    /\ orun = IdleOrun

\* main.rs:400-408: the Rust files of the project
StartSelect ==
    /\ orun.pc = "start"
    /\ orun' = [orun EXCEPT !.pc = "extract", !.i = 1,
                            !.all_files = CollectFiles({"rs"})]
    /\ UNCHANGED <<rvars, svars, readable, args>>

\* main.rs:412-417: one file of the extraction loop; a file that cannot be
\* read gives a warning
ExtractStep ==
    /\ orun.pc = "extract"
    /\ orun.i <= Len(orun.all_files)
    /\ LET file_path == orun.all_files[orun.i]
       IN  IF file_path \in readable
           THEN orun' = [orun EXCEPT
                    !.i = @ + 1,
                    !.all_functions =
                        @ \o extract_functions_from_rust_file(FileContent(file_path),
                                                              file_path)]
           ELSE orun' = [orun EXCEPT !.i = @ + 1,
                                     !.warnings = Append(@, file_path)]
    /\ UNCHANGED <<rvars, svars, readable, args>>

\* main.rs:419-472 and 125-128: the history is loaded, the picker runs, the
\* selection is saved
SelectStep ==
    /\ orun.pc = "extract"
    /\ orun.i > Len(orun.all_files)
    /\ IF orun.all_functions = <<>>
       THEN /\ orun' = [orun EXCEPT !.pc = "done", !.exit = "no functions selected"]
            /\ UNCHANGED <<history_file, write_log>>
       ELSE \E aborted \in BOOLEAN, checked \in SUBSET (1..Len(orun.all_functions)) :
            LET history == load_selection_history(home_ok, history_file)
                names   == Chosen(SortSeq(orun.all_functions, NameLess), checked)
            IN  IF ~history.ok \/ AfterPrompt(aborted) = "returned"
                THEN /\ orun' = [orun EXCEPT !.pc = "done", !.exit = "failure"]
                     /\ UNCHANGED <<history_file, write_log>>
                ELSE /\ history_file' =
                            ToJson(InsertSelection(LoadOrDefault(home_ok, history_file),
                                                   "r1", names))
                     /\ write_log' = Append(write_log,
                            [proc |-> 1, root |-> "r1", names |-> names])
                     /\ IF names = <<>>
                        THEN orun' = [orun EXCEPT !.pc = "done",
                                                  !.exit = "no functions selected"]
                        ELSE orun' = [orun EXCEPT
                                !.pc = "generate", !.i = 1,
                                !.selected_functions = names,
                                !.all_files = CollectFiles(DetermineExtensions(args))]
    /\ UNCHANGED <<rvars, home_ok, run, readable, args>>

\* `fs::read_to_string(..).context("Failed to read file")?` in
\* generate_output_with_selected_functions: the error leaves the function
\* and main
OnReadError(o) == [o EXCEPT !.pc = "done", !.exit = "failure"]

\* main.rs:490-546: one file of the output loop
GenerateStep ==
    /\ orun.pc = "generate"
    /\ orun.i <= Len(orun.all_files)
    /\ LET file_path == orun.all_files[orun.i]
           keep == FunctionsToKeep(orun.selected_functions, file_path)
           transformed_content ==
               TransformedContent(FileContent(file_path), keep, args.only)
       IN  IF IsRust(file_path)
           THEN IF file_path \notin readable THEN orun' = OnReadError(orun)
                ELSE IF ~IsBlank(transformed_content)
                THEN orun' = [orun EXCEPT
                        !.i = @ + 1,
                        !.writer = Append(@, [path |-> file_path,
                                              text |-> transformed_content])]
                ELSE orun' = [orun EXCEPT !.i = @ + 1]
           ELSE IF ~args.only
           THEN IF file_path \notin readable THEN orun' = OnReadError(orun)
                ELSE orun' = [orun EXCEPT
                        !.i = @ + 1,
                        !.writer = Append(@, [path |-> file_path,
                                              text |-> FileContent(file_path)])]
           ELSE orun' = [orun EXCEPT !.i = @ + 1]
    /\ UNCHANGED <<rvars, svars, readable, args>>

\* main.rs:159-189: the output is complete; without --print it goes to the
\* clipboard unless it is empty
FinishOutput ==
    /\ orun.pc = "generate"
    /\ orun.i > Len(orun.all_files)
    /\ orun' = [orun EXCEPT
            !.pc = "done",
            !.exit = IF ~args.print /\ orun.writer = <<>> THEN "no content generated"
                     ELSE "ok",
            !.clipboard = IF args.print THEN <<>> ELSE orun.writer]
    /\ UNCHANGED <<rvars, svars, readable, args>>

NextRun == StartSelect \/ ExtractStep \/ SelectStep \/ GenerateStep \/ FinishOutput

SpecRun == InitRun /\ [][NextRun]_vars

-----------------------------------------------------------------------------
(* The rewriter and the extractor applied to one source unit *)

InitRewrite ==
    /\ source \in Sources
    /\ functions_to_keep \in SUBSET Names
    /\ functions = NotRun
    /\ transformed = NotRun
    /\ extracted = NotRun
    /\ retransformed = NotRun
    /\ SelectorIdle
    /\ OrchestratorIdle

ExtractFunctions ==
    /\ functions.st = "none"
    /\ functions' = [st   |-> "ok",
                     text |-> extract_functions_from_rust_file(source, RelativePath)]
    /\ UNCHANGED <<source, functions_to_keep, transformed, extracted, retransformed>>
    /\ UNCHANGED <<svars, ovars>>

TransformRustFile ==
    /\ transformed.st = "none"
    /\ transformed' =
         LET r == transform_rust_file(source, functions_to_keep)
         IN  [st |-> IF r.ok THEN "ok" ELSE "panic", text |-> r.text]
    /\ UNCHANGED <<source, functions_to_keep, functions, extracted, retransformed>>
    /\ UNCHANGED <<svars, ovars>>

ExtractOnlySelected ==
    /\ extracted.st = "none"
    /\ extracted' =
         [st   |-> "ok",
          text |-> extract_only_selected_functions(source, functions_to_keep)]
    /\ UNCHANGED <<source, functions_to_keep, functions, transformed, retransformed>>
    /\ UNCHANGED <<svars, ovars>>

\* transform_rust_file run again, with the same keep list, on the text it
\* returned
TransformAgain ==
    /\ transformed.st = "ok"
    /\ retransformed.st = "none"
    /\ retransformed' =
         LET r == transform_rust_file(transformed.text, functions_to_keep)
         IN  [st |-> IF r.ok THEN "ok" ELSE "panic", text |-> r.text]
    /\ UNCHANGED <<source, functions_to_keep, functions, transformed, extracted>>
    /\ UNCHANGED <<svars, ovars>>

NextRewrite ==
    ExtractFunctions \/ TransformRustFile \/ ExtractOnlySelected \/ TransformAgain

SpecRewrite == InitRewrite /\ [][NextRewrite]_vars

-----------------------------------------------------------------------------
(* Vocabulary of the rewriter claims *)

\* needle occurs in hay as a contiguous piece
Contains(hay, needle) ==
    \E i \in 0..(Len(hay) - Len(needle)) : SubSeq(hay, i + 1, i + Len(needle)) = needle

Count(hay, tok) == Cardinality({i \in 1..Len(hay) : hay[i] = tok})

\* the callables of the source unit
Callables == {Fns(source)[x] : x \in 1..Len(Fns(source))}

Kept(c) == c.name \in functions_to_keep

\* c has its body replaced by the placeholder
Elided(c) == c.name \notin functions_to_keep /\ c.hasBody

\* c is declared inside the body of d
Inside(c, d) == d.hasBody /\ c.start > d.bodyStart /\ c.start <= d.bodyEnd

BodyText(c) == SubSeq(source, c.bodyStart, c.bodyEnd)

\* the text of c up to its body
SigText(c) == SubSeq(source, c.start, c.bodyStart - 1)

\* no elided body lies inside another elided body
DisjointElisions ==
    \A c, d \in Callables : Elided(c) /\ Elided(d) => ~Inside(c, d)

BodyLen(c) == c.bodyEnd - c.bodyStart + 1

\* the change of length when the bodies of the callables in S are exchanged
\* for placeholders
RECURSIVE LengthChange(_)
LengthChange(S) ==
    IF S = {} THEN 0
    ELSE LET c == CHOOSE y \in S : TRUE
         IN  Len(Placeholder) - BodyLen(c) + LengthChange(S \ {c})

NoImplInsideFn ==
    \A x \in 1..Len(Impls(source)) : \A d \in Callables :
        ~(d.hasBody /\ Impls(source)[x].start > d.bodyStart
                    /\ Impls(source)[x].start <= d.bodyEnd)

NoDuplicates(seq) == \A i, j \in 1..Len(seq) : seq[i] = seq[j] => i = j

\* C8: extract_functions_from_rust_file gives each callable of the file
\* exactly one qualified name, so the list has one entry per callable and
\* holds every qualified name once.
C8_OneNamePerCallable ==
    functions.st = "ok" =>
        /\ Len(functions.text) = Len(Fns(source))
        /\ NoDuplicates(functions.text)

\* C9: a function item without a body gets no qualified name from
\* extract_functions_from_rust_file (no entry of the list names it).
C9_BodylessSkipped ==
    functions.st = "ok" =>
        \A c \in Callables :
            (~c.hasBody /\ \A d \in Callables : d.hasBody => d.name # c.name)
                => \A i \in 1..Len(functions.text) : Last(functions.text[i]) # c.name

-----------------------------------------------------------------------------
(* The Selector and the selection history *)

\* the run got a history from load_selection_history and went on
Loaded(p) == run[p].loaded_from # "none" /\ run[p].loaded.ok

\* C3: the pre-checked set is, when the loaded history has an entry for the
\* project root (an empty one included), exactly the extracted names that
\* occur in the entry (a stale name of the entry is dropped and the run goes
\* on to the picker), and every extracted name when it has no entry.
C3_DefaultPreChecked ==
    \A p \in Procs :
        Loaded(p) =>
            LET names   == run[p].function_display_names
                history == run[p].loaded.selections
                checked == {names[i] : i \in run[p].default_selected}
            IN  /\ run[p].default_selected \subseteq 1..Len(names)
                /\ IF run[p].root \in DOMAIN history
                   THEN /\ checked = Range(names) \cap Range(history[run[p].root])
                        /\ \A i \in 1..Len(names) :
                             names[i] \in checked => i \in run[p].default_selected
                   ELSE run[p].default_selected = 1..Len(names)

\* a run at the picker whose history entry holds a stale name next to an
\* extracted one: only the extracted one is pre-checked
C3_Witness ==
    \E p \in Procs :
        /\ run[p].pc = "prompt"
        /\ run[p].root \in DOMAIN run[p].loaded.selections
        /\ Stale \in Range(run[p].loaded.selections[run[p].root])
        /\ run[p].default_selected # {}
        /\ run[p].default_selected # 1..Len(run[p].function_display_names)

\* C4: a run whose picker reported an abort wrote nothing to the history file.
C4_NoWriteOnAbort ==
    \A p \in Procs :
        run[p].aborted => \A i \in 1..Len(write_log) : write_log[i].proc # p

\* an aborted run has ended, and the history file still holds the record it
\* held for the run's root
C4_Witness ==
    \E p \in Procs :
        /\ run[p].aborted
        /\ run[p].pc = "done"
        /\ write_log = <<>>
        /\ history_file.st = "valid"
        /\ run[p].root \in DOMAIN history_file.selections
        /\ history_file.selections[run[p].root] # <<>>

\* C5: when the picker reports an abort, interactive_select_functions returns
\* Ok with an empty list and main ends through "No functions selected.".
C5_AbortReturnsEmpty ==
    \A p \in Procs :
        (run[p].aborted /\ run[p].pc \in {"returned", "done"}) =>
            /\ run[p].result = [kind |-> "ok", names |-> <<>>]
            /\ run[p].pc = "done" => run[p].exit = "no functions selected"

\* C6: load_selection_history returns Ok with no selections whenever the
\* history file is missing, unreadable or malformed (the home directory
\* being resolved).
C6_LoadNeverFails ==
    \A p \in Procs :
        (home_ok /\ run[p].loaded_from \in {"missing", "unreadable", "malformed"}) =>
            /\ run[p].loaded.ok
            /\ run[p].loaded.selections = EmptyHistory

\* C7: after a write of the history file the stored record for the writer's
\* root is exactly the list that run selected and returns (nothing of the
\* prior record remains); so when two runs on one root have both written, in
\* any interleaving, the record is the selection of the run that wrote last.
C7_LastWriterWins ==
    write_log # <<>> =>
        LET w == Last(write_log)
        IN  /\ history_file.st = "valid"
            /\ w.root \in DOMAIN history_file.selections
            /\ history_file.selections[w.root] = w.names
            /\ run[w.proc].result = [kind |-> "ok", names |-> w.names]

\* two runs on one root have both completed with different selections, the
\* first of them over a prior record that it did not choose from
C7_Witness ==
    /\ Len(write_log) = 2
    /\ write_log[1].root = write_log[2].root
    /\ write_log[1].names # write_log[2].names
    /\ write_log[1].names # <<>>
    /\ \A p \in Procs : run[p].pc = "done"
    /\ \E p \in Procs :
        /\ run[p].root \in DOMAIN run[p].loaded.selections
        /\ Stale \in Range(run[p].loaded.selections[run[p].root])

-----------------------------------------------------------------------------
(* The run over the files of a project *)

\* what reaches the user: stdout under --print, the clipboard otherwise
Delivered == IF args.print THEN orun.writer ELSE orun.clipboard

\* the files whose block belongs in the output of the run
OutputFiles ==
    {path \in Range(CollectFiles(DetermineExtensions(args))) :
        /\ path \in readable
        /\ IF IsRust(path)
           THEN ~IsBlank(TransformedContent(FileContent(path),
                            FunctionsToKeep(orun.selected_functions, path), args.only))
           ELSE ~args.only}

\* C10: a file that cannot be read is reported and skipped in both phases
\* of a --functions run: once functions are selected the run does not fail,
\* and the output holds the block of every other file.
C10_UnreadableFileSkipped ==
    /\ (orun.pc \in {"generate", "done"} /\ orun.all_functions # <<>>) =>
        \A path \in Range(CollectFiles({"rs"})) :
            path \notin readable => path \in Range(orun.warnings)
    /\ (orun.pc = "done" /\ orun.selected_functions # <<>>) =>
        /\ orun.exit # "failure"
        /\ \A path \in OutputFiles :
            \E i \in 1..Len(Delivered) : Delivered[i].path = path

-----------------------------------------------------------------------------
(* Elision run twice, and the splices of one run *)

\* C11: elision is idempotent: transform_rust_file applied with the same
\* keep list to its own output returns that output unchanged.
C11_Idempotent ==
    retransformed.st # "none" =>
        /\ retransformed.st = "ok"
        /\ retransformed.text = transformed.text

\* position i of the source lies in the body of an elided callable
InElidedBody(i) ==
    \E c \in Callables : Elided(c) /\ i >= c.bodyStart /\ i <= c.bodyEnd

\* position i opens the body of an elided callable that lies in no other
\* elided body
OpensElidedBody(i) ==
    \E c \in Callables :
        /\ Elided(c) /\ c.bodyStart = i
        /\ \A d \in Callables : Elided(d) => ~Inside(c, d)

\* the source with every elided body exchanged for the placeholder and all
\* text outside the elided bodies as it was
ExpectedElision ==
    Flatten([i \in 1..Len(source) |->
        IF OpensElidedBody(i) THEN Placeholder
        ELSE IF InElidedBody(i) THEN <<>>
        ELSE <<source[i]>>])

\* C12: every replacement of transform_rust_file hits exactly the body it
\* was computed for: no splice is out of bounds and the output is the source
\* with the elided bodies exchanged for placeholders and all other text
\* unchanged, also when an elided function contains another elided function.
C12_SplicesExact ==
    transformed.st # "none" =>
        /\ transformed.st = "ok"
        /\ transformed.text = ExpectedElision

-----------------------------------------------------------------------------
(* Extraction: how often a kept callable is emitted *)

\* the number of places where needle occurs in hay
Occurrences(hay, needle) ==
    Cardinality({i \in 0..(Len(hay) - Len(needle)) :
                    SubSeq(hay, i + 1, i + Len(needle)) = needle})

\* c is a method: it lies in an impl block
IsMethod(c) ==
    \E x \in 1..Len(Impls(source)) :
        c.start > Impls(source)[x].start /\ c.start <= Impls(source)[x].end

\* no callable of the source is declared inside another
NoNestedCallables == \A c, d \in Callables : ~Inside(c, d)

\* C13: extraction emits each kept callable exactly once: a kept free
\* function verbatim as a top-level item followed by a blank line, a kept
\* method only inside the reconstructed block of its impl (here for the
\* sources without nested callables).
C13_EmittedOnce ==
    (extracted.st = "ok" /\ NoNestedCallables) =>
        \A c \in Callables :
            Kept(c) =>
                /\ Occurrences(extracted.text, <<"fn", c.name>>)
                     = Cardinality({d \in Callables : d.name = c.name})
                /\ ~IsMethod(c) =>
                     Contains(extracted.text, NodeText(source, c) \o <<"\n", "\n">>)

-----------------------------------------------------------------------------
(* Runs on different roots and the shared history file *)

\* C14: saving for one root leaves the records of the other roots as they
\* are: when two runs on different roots have both written the history file,
\* in any interleaving of their reads and writes, the file holds the record
\* each of them saved.
C14_NoLostUpdate ==
    (/\ Len(write_log) = 2
     /\ write_log[1].root # write_log[2].root) =>
        /\ history_file.st = "valid"
        /\ \A i \in 1..2 :
            /\ write_log[i].root \in DOMAIN history_file.selections
            /\ history_file.selections[write_log[i].root] = write_log[i].names

====
